---- MODULE Spec2Model ----
(***************************************************************************)
(* Model of the retrieval aggregation engine of friday:                    *)
(*   backend/friday/retrieval/unified_search.py                            *)
(*   backend/friday/utils/memory_extractor.py (save_extracted_memories)    *)
(*                                                                         *)
(* Floats are modelled as integers in tenths (1.0 is 10, 0.7 is 7), and in *)
(* hundredths in SpecSave (0.85 is 85).                                    *)
(* Python strings are modelled as sequences of one-character strings.      *)
(*                                                                         *)
(* Four specifications share the variables:                                *)
(*   SpecResult   the UnifiedSearchResult dataclass (construct, reassign)  *)
(*   Spec         one call of unified_search, adapter by adapter           *)
(*   SpecContext  one call of get_search_context, iteration by iteration   *)
(*   SpecSave     two concurrent calls of save_extracted_memories          *)
(***************************************************************************)
EXTENDS Integers, Sequences, FiniteSets, TLC

VARIABLES
    \* ---- UnifiedSearchResult object under test (SpecResult)
    usr_pc,          \* "args" | "constructed" | "replaced" | "idle"
    usr,             \* the object's fields (before construction: the arguments)
    \* ---- unified_search call (Spec)
    pc,              \* position in unified_search
    k,               \* parameter k
    threshold,       \* parameter threshold
    hybrid_search,   \* parameter hybrid_search
    query,           \* parameter query
    reranking_function,  \* parameter reranking_function: TRUE iff one is supplied
    rerank_calls,    \* the calls made to the reranking function, in order
    disc_env,        \* what the knowledge-base store answered to the discovery
    collections_with_names,  \* local: result of get_all_user_collections
    raw_results,     \* local: what the knowledge search returned
    search_results,  \* local: the merged list
    memory_results,  \* local: what search_memories returned
    note_results,    \* local: what search_notes returned
    prompt_results,  \* local: what search_prompts returned
    kn_env,          \* what the knowledge search backend answered
    mem_env,         \* what the memory store and the vector index answered
    mem_calls,       \* the collaborators search_memories called, in order
    notes_env,       \* what the notes store answered
    prompts_env,     \* what the prompts store answered
    result,          \* the returned UnifiedSearchResult (meaningful once pc = "done")
    via_except,      \* TRUE iff the return came from the outer except (line 664-666)
    \* ---- get_search_context call (SpecContext)
    ctx_pc,          \* "loop" | "done" | "idle"
    ctx_results,     \* unified_result.results (source_name, content)
    max_context_length, \* parameter
    ctx_i,           \* loop index (1-based index of the next result)
    context_parts,   \* local list
    current_length,  \* local
    context,         \* returned string (meaningful once ctx_pc = "done")
    \* ---- save_extracted_memories calls (SpecSave)
    memory_table,    \* the SQL memories of the user, in insertion order
    vector_collection,  \* the rows of memory_table present in user-memory-<id>
    sv               \* per call: position, arguments and locals

vars == <<usr_pc, usr, pc, k, threshold, hybrid_search, query,
          reranking_function, rerank_calls, disc_env, mem_calls,
          collections_with_names, raw_results, search_results,
          memory_results, note_results, prompt_results, kn_env, mem_env,
          notes_env, prompts_env, result, via_except, ctx_pc, ctx_results,
          max_context_length, ctx_i, context_parts, current_length, context,
          memory_table, vector_collection, sv>>

usr_vars == <<usr_pc, usr>>
par_vars == <<k, threshold, hybrid_search, query, reranking_function>>
us_vars  == <<pc, par_vars, rerank_calls, disc_env, mem_calls, collections_with_names,
              raw_results, search_results, memory_results, note_results,
              prompt_results, kn_env, mem_env, notes_env, prompts_env,
              result, via_except>>
ctx_vars == <<ctx_pc, ctx_results, max_context_length, ctx_i, context_parts,
              current_length, context>>
save_vars == <<memory_table, vector_collection, sv>>

-----------------------------------------------------------------------------
(* Generic helpers *)

Range(s) == {s[i] : i \in 1..Len(s)}

SeqsUpTo(S, n) == UNION {[1..m -> S] : m \in 0..n}

MaxOf(S) == CHOOSE x \in S : \A y \in S : y <= x

Min2(a, b) == IF a <= b THEN a ELSE b

Max2(a, b) == IF a >= b THEN a ELSE b

Take(s, n) == SubSeq(s, 1, Min2(Len(s), n))

RECURSIVE Flatten(_)
Flatten(ss) == IF ss = <<>> THEN <<>> ELSE Head(ss) \o Flatten(Tail(ss))

\* list(set(...)): every enumeration of S without repetition (the order of a
\* Python set's iteration is not specified)
ListsOfSet(S) ==
    {s \in [1..Cardinality(S) -> S] : Range(s) = S}

-----------------------------------------------------------------------------
(* Result model: SearchResult, UnifiedSearchResult *)

\* dataclass SearchResult (metadata is opaque to every operation modelled here
\* and is left out)
SearchResult(content, score, source, source_name) ==
    [content |-> content, score |-> score, source |-> source,
     source_name |-> source_name]

\* UnifiedSearchResult.__post_init__: the objects it may leave behind
PostInit(self) ==
    IF self.results # <<>>
    THEN {[self EXCEPT !.total_count = Len(self.results),
                       !.max_score = MaxOf({self.results[i].score : i \in 1..Len(self.results)}),
                       !.sources = srcs] :
            srcs \in ListsOfSet({self.results[i].source : i \in 1..Len(self.results)})}
    ELSE {[self EXCEPT !.total_count = Len(self.results)]}

\* the generated __init__ with its defaults, before __post_init__
UnifiedSearchResultArgs(results, total_count, max_score, sources, q) ==
    [results |-> results, total_count |-> total_count, max_score |-> max_score,
     sources |-> sources, query |-> q]

\* UnifiedSearchResult(results=..., query=...) as unified_search calls it
NewUnifiedSearchResult(results, q) ==
    PostInit(UnifiedSearchResultArgs(results, 0, 0, <<>>, q))

\* UnifiedSearchResult.is_relevant
is_relevant(self, thr) ==
    IF self.results # <<>> THEN self.max_score >= thr ELSE FALSE

-----------------------------------------------------------------------------
(* SpecResult: construction and reassignment of a UnifiedSearchResult *)

MaxResults == 2

SampleScores == {-3, 0, 4, 9}

SampleSources == {<<"k", "b", "1">>, <<"n", "1">>}

SampleResults ==
    {SearchResult(<<"c">>, sc, so, <<"S">>) : sc \in SampleScores, so \in SampleSources}

SampleLists == SeqsUpTo(SampleResults, MaxResults)

UsIdle ==
    /\ pc = "idle" /\ k = 0 /\ threshold = 0 /\ hybrid_search = FALSE
    /\ query = <<>> /\ collections_with_names = <<>> /\ raw_results = <<>>
    /\ search_results = <<>> /\ memory_results = <<>> /\ note_results = <<>>
    /\ prompt_results = <<>> /\ kn_env = <<>> /\ mem_env = <<>>
    /\ notes_env = <<>> /\ prompts_env = <<>> /\ result = <<>>
    /\ via_except = FALSE /\ reranking_function = FALSE /\ rerank_calls = <<>>
    /\ disc_env = <<>> /\ mem_calls = <<>>

CtxIdle ==
    /\ ctx_pc = "idle" /\ ctx_results = <<>> /\ max_context_length = 0
    /\ ctx_i = 0 /\ context_parts = <<>> /\ current_length = 0
    /\ context = <<>>

UsrIdle == usr_pc = "idle" /\ usr = <<>>

SaveIdle == memory_table = <<>> /\ vector_collection = {} /\ sv = <<>>

InitResult ==
    /\ usr_pc = "args"
    /\ usr \in {UnifiedSearchResultArgs(rs, tc, ms, ss, <<"q">>) :
                  rs \in SampleLists, tc \in {0, 7}, ms \in {0, 5},
                  ss \in {<<>>, <<<<"z", "z">>>>}}
    /\ UsIdle
    /\ CtxIdle
    /\ SaveIdle

\* UnifiedSearchResult(...): __init__ stores the arguments, __post_init__ runs
Construct ==
    /\ usr_pc = "args"
    /\ usr' \in PostInit(usr)
    /\ usr_pc' = "constructed"
    /\ UNCHANGED <<us_vars, ctx_vars, save_vars>>

\* obj.results = new_list: a plain attribute assignment on the (non-frozen)
\* dataclass; no other field is touched
ReplaceResults ==
    /\ usr_pc \in {"constructed", "replaced"}
    /\ \E rs \in SampleLists : usr' = [usr EXCEPT !.results = rs]
    /\ usr_pc' = "replaced"
    /\ UNCHANGED <<us_vars, ctx_vars, save_vars>>

NextResult == Construct \/ ReplaceResults

SpecResult == InitResult /\ [][NextResult]_vars

\* the three summary fields as pure functions of results (spec section 3)
IsDerived(self) ==
    /\ self.total_count = Len(self.results)
    /\ self.max_score =
         (IF self.results = <<>> THEN 0
          ELSE MaxOf({self.results[i].score : i \in 1..Len(self.results)}))
    /\ Range(self.sources) = {self.results[i].source : i \in 1..Len(self.results)}
    /\ Len(self.sources) = Cardinality(Range(self.sources))

\* C1: right after construction with any arguments, total_count, max_score and
\* sources are the values derived from results (0.0 and the empty set when
\* results is empty).
C1_DerivedAfterConstruction ==
    usr_pc = "constructed" => IsDerived(usr)

\* C2: after results is replaced wholesale by another list, total_count,
\* max_score and sources equal the values derived from the new results.
C2_DerivedAfterReplace ==
    usr_pc = "replaced" => IsDerived(usr)

\* the thresholds is_relevant is asked with
RelevanceThresholds == {-3, 0, 4, 5, 9, 10}

\* is_relevant by its meaning: some result reaches the threshold
SomeResultReaches(self, thr) ==
    /\ self.results # <<>>
    /\ \E i \in 1..Len(self.results) : self.results[i].score >= thr

\* C27: for every UnifiedSearchResult and every threshold, is_relevant is true
\* exactly when results is non-empty and some result has score >= threshold;
\* for a result returned by unified_search the first result's score decides.
C27_IsRelevant ==
    /\ (usr_pc \in {"constructed", "replaced"}) =>
         \A thr \in RelevanceThresholds :
             is_relevant(usr, thr) <=> SomeResultReaches(usr, thr)
    /\ (pc = "done") =>
         \A thr \in RelevanceThresholds :
             is_relevant(result, thr) <=>
                 (result.results # <<>> /\ result.results[1].score >= thr)

-----------------------------------------------------------------------------
(* Python string operations on sequences of characters *)

LowerChar(c) ==
    CASE c = "A" -> "a"
      [] c = "B" -> "b"
      [] c = "X" -> "x"
      [] OTHER -> c

\* str.lower
Lower(s) == [i \in 1..Len(s) |-> LowerChar(s[i])]

IsSpace(c) == c \in {" ", "\n", "\t"}

\* x in s
IsSubstr(x, s) ==
    \E i \in 0..(Len(s) - Len(x)) : SubSeq(s, i + 1, i + Len(x)) = x

\* the words of s.split(): the maximal runs of non-whitespace characters
Words(s) ==
    {SubSeq(s, i, j) : <<i, j>> \in
        {p \in (1..Len(s)) \X (1..Len(s)) :
            /\ p[1] <= p[2]
            /\ \A n \in p[1]..p[2] : ~IsSpace(s[n])
            /\ (p[1] = 1 \/ IsSpace(s[p[1] - 1]))
            /\ (p[2] = Len(s) \/ IsSpace(s[p[2] + 1]))}}

\* any(word in s for word in q.split())
AnyWordIn(q, s) == \E w \in Words(q) : IsSubstr(w, s)

\* two independent ifs: the word weight added on top of the exact weight
FieldScoreNoElif(q, field, exact, word) ==
    (IF IsSubstr(q, field) THEN exact ELSE 0) + (IF AnyWordIn(q, field) THEN word ELSE 0)

\* exact-or-word scoring of one field, as in the if/elif of the two lexical adapters
FieldScore(q, field, exact, word) ==
    IF IsSubstr(q, field) THEN exact
    ELSE IF AnyWordIn(q, field) THEN word
    ELSE 0

\* a sort that puts a later element before the earlier ones of equal score
RECURSIVE InsertDescTiesReversed(_, _)
InsertDescTiesReversed(x, s) ==
    IF s = <<>> THEN <<x>>
    ELSE IF x.score >= Head(s).score THEN <<x>> \o s
    ELSE <<Head(s)>> \o InsertDescTiesReversed(x, Tail(s))

\* list.sort(key=score, reverse=True): stable, descending (insertion sort)
RECURSIVE InsertDesc(_, _)
InsertDesc(x, s) ==
    IF s = <<>> THEN <<x>>
    ELSE IF x.score > Head(s).score THEN <<x>> \o s
    ELSE <<Head(s)>> \o InsertDesc(x, Tail(s))

RECURSIVE SortDesc(_)
SortDesc(s) ==
    IF s = <<>> THEN <<>>
    ELSE InsertDesc(s[Len(s)], SortDesc(SubSeq(s, 1, Len(s) - 1)))

-----------------------------------------------------------------------------
(* Source adapters *)

\* the user of the modelled call
user_id == <<"u", "1">>

\* get_all_user_collections: env.fail is Knowledges.get_knowledge_bases_by_user_id
\* raising, env.kbs the knowledge bases it returns
get_all_user_collections(env) ==
    IF env.fail THEN <<>>
    ELSE IF env.kbs = <<>> THEN <<>>
    ELSE [i \in 1..Len(env.kbs) |-> <<env.kbs[i].id, env.kbs[i].name>>]

\* search_collections: env.fail is query_collection raising, env.records what
\* it returns
search_collections(collection_names, env) ==
    IF collection_names = <<>> THEN <<>>
    ELSE IF env.fail THEN <<>>
    ELSE env.records

\* search_collections_hybrid: the same shape over query_collection_with_hybrid_search
search_collections_hybrid(collection_names, env) ==
    IF collection_names = <<>> THEN <<>>
    ELSE IF env.fail THEN <<>>
    ELSE env.records

\* collection_name = f"user-memory-{user_id}"
MemoryCollection ==
    <<"u", "s", "e", "r", "-", "m", "e", "m", "o", "r", "y", "-">> \o user_id

\* 1.0 in tenths
ONE == 10

\* a conversion that forgets the clamp
MemoryScoreNoClamp(distance) == ONE - distance

\* score = max(0.0, min(1.0, 1.0 - distance))
MemoryScore(distance) == Max2(0, Min2(ONE, ONE - distance))

\* a search_memories that asks the vector index before the store
MemoryCallsSearchFirst(env) ==
    IF env.fail_at = "embed" THEN <<"embedding_function">>
    ELSE IF env.fail_at = "search" THEN <<"embedding_function", "search">>
    ELSE <<"embedding_function", "search", "get_memories_by_user_id">>

\* the collaborators search_memories calls, in order (lines 259-274): the
\* store lookup, then, unless it raised or found nothing, the embedding
\* function, then, unless that raised, the vector index
MemoryCalls(env) ==
    IF env.fail_at = "store" \/ env.owned = 0 THEN <<"get_memories_by_user_id">>
    ELSE IF env.fail_at = "embed" THEN <<"get_memories_by_user_id", "embedding_function">>
    ELSE <<"get_memories_by_user_id", "embedding_function", "search">>

\* search_memories: env.owned is the number of memories the user owns,
\* env.fail is the store, the embedding function or the vector index raising
\* (env.fail_at tells which), env.hits the parallel arrays of the first
\* query's answer
search_memories(env) ==
    IF env.fail THEN <<>>
    ELSE IF env.owned = 0 THEN <<>>
    ELSE [i \in 1..Len(env.hits) |->
            SearchResult(env.hits[i].document,
                         MemoryScore(env.hits[i].distance),
                         MemoryCollection,
                         <<"M", "e", "m", "o", "r", "i", "e", "s">>)]

\* content[:500]
SNIPPET_LEN == 500

\* the content of a note: note.data["content"] is a dict (md, then text), a
\* string, or neither
NoteContent(note) ==
    CASE note.data.kind = "dict" ->
           (IF note.data.md # <<>> THEN note.data.md ELSE note.data.text)
      [] note.data.kind = "str" -> note.data.str
      [] OTHER -> <<>>

\* a score that compares the title as stored
NoteScoreCaseSensitive(note, q) ==
    FieldScore(Lower(q), note.title, 10, 5)
    + FieldScore(Lower(q), Lower(NoteContent(note)), 7, 3)

\* the score of one note (lines 345-367)
NoteScore(note, q) ==
    FieldScore(Lower(q), Lower(note.title), 10, 5)
    + FieldScore(Lower(q), Lower(NoteContent(note)), 7, 3)

\* full_text of one note (lines 371-372); title is the lower-cased title
NoteFullText(note) ==
    IF NoteContent(note) # <<>>
    THEN Lower(note.title) \o <<"\n", "\n">> \o Take(NoteContent(note), SNIPPET_LEN)
    ELSE Lower(note.title)

NoteResult(note, q) ==
    SearchResult(NoteFullText(note), NoteScore(note, q), note.id,
                 <<"N", "o", "t", "e", ":", " ">> \o note.title)

\* a search_notes that slices before it sorts
search_notes_caps_first(env, q, kk) ==
    IF env.fail THEN <<>>
    ELSE IF env.items = <<>> THEN <<>>
    ELSE LET scored == SelectSeq([i \in 1..Len(env.items) |-> NoteResult(env.items[i], q)],
                                 LAMBDA r : r.score > 0)
         IN SortDesc(Take(scored, kk))

\* search_notes: env.fail is a store call raising, env.items the readable notes
search_notes(env, q, kk) ==
    IF env.fail THEN <<>>
    ELSE IF env.items = <<>> THEN <<>>
    ELSE LET scored == SelectSeq([i \in 1..Len(env.items) |-> NoteResult(env.items[i], q)],
                                 LAMBDA r : r.score > 0)
         IN Take(SortDesc(scored), kk)

\* the score of one prompt (lines 433-452)
PromptScore(prompt, q) ==
    FieldScore(Lower(q), Lower(prompt.command), 10, 6)
    + FieldScore(Lower(q), Lower(prompt.title), 8, 4)
    + FieldScore(Lower(q), Lower(prompt.content), 6, 2)

\* full_text of one prompt (lines 456-457)
PromptFullText(prompt) ==
    <<"/">> \o prompt.command \o <<":", " ">> \o prompt.title
    \o <<"\n", "\n">> \o Take(prompt.content, SNIPPET_LEN)

PromptResult(prompt, q) ==
    SearchResult(PromptFullText(prompt), PromptScore(prompt, q), prompt.command,
                 <<"P", "r", "o", "m", "p", "t", ":", " ">> \o prompt.title)

\* search_prompts: env.fail is the store call raising, env.items the readable prompts
search_prompts(env, q, kk) ==
    IF env.fail THEN <<>>
    ELSE IF env.items = <<>> THEN <<>>
    ELSE LET scored == SelectSeq([i \in 1..Len(env.items) |-> PromptResult(env.items[i], q)],
                                 LAMBDA r : r.score > 0)
         IN Take(SortDesc(scored), kk)

-----------------------------------------------------------------------------
(* unified_search: conversion of the raw knowledge records *)

\* collection_names_map.get(collection_id, "Unknown")
NameOf(collections, collection_id) ==
    IF \E i \in 1..Len(collections) : collections[i][1] = collection_id
    THEN LET i == CHOOSE j \in 1..Len(collections) :
                    /\ collections[j][1] = collection_id
                    /\ \A m \in (j + 1)..Len(collections) : collections[m][1] # collection_id
         IN collections[i][2]
    ELSE <<"U", "n", "k", "n", "o", "w", "n">>

\* the raw source id whatever the metadata says
CollectionIdOfIgnoresMetadata(meta, source_id) == source_id

\* metadata.get("collection_name", source_id)
CollectionIdOf(meta, source_id) ==
    IF meta.has_collection_name THEN meta.collection_name ELSE source_id

\* a or b on two strings
OrStr(a, b) == IF a # <<>> THEN a ELSE b

\* a conversion that raises on a record of another shape
ConvertRecordRejectsOther(item, collections) ==
    IF item.shape = "tuple" /\ item.len >= 3
    THEN IF ~item.doc_is_map \/ item.meta.kind = "nonmap"
         THEN [raised |-> TRUE, out |-> <<>>]
         ELSE LET score == IF item.score.kind = "num" THEN item.score.val ELSE 0
                  content == OrStr(item.text, item.content)
                  cid == CollectionIdOf(item.meta, item.source_id)
              IN [raised |-> FALSE,
                  out |-> <<SearchResult(content, score, cid, NameOf(collections, cid))>>]
    ELSE IF item.shape = "dict"
    THEN IF item.score.kind \notin {"num", "absent"} \/ item.meta.kind = "nonmap"
         THEN [raised |-> TRUE, out |-> <<>>]
         ELSE LET score == IF item.score.kind = "num" THEN item.score.val ELSE 0
                  content == OrStr(item.content, item.text)
                  cid == CollectionIdOf(item.meta, item.source_id)
              IN [raised |-> FALSE,
                  out |-> <<SearchResult(content, score, cid, NameOf(collections, cid))>>]
    ELSE [raised |-> TRUE, out |-> <<>>]

\* One raw record (lines 561-600).  A record is
\*   shape "tuple" with len elements: item[0] = source_id, item[1] = score
\*     (score.kind "num" or not), item[2] = document (doc_is_map or not);
\*   shape "dict": keys score, content, text, metadata, source;
\*   shape "other": anything else.
\* meta.kind is "map", "absent" (the key is missing: default {}) or "nonmap".
\* The answer is [raised, out]: raised when the statement raises, out the
\* SearchResults appended.
ConvertRecord(item, collections) ==
    IF item.shape = "tuple" /\ item.len >= 3
    THEN IF ~item.doc_is_map \/ item.meta.kind = "nonmap"
         THEN [raised |-> TRUE, out |-> <<>>]
         ELSE LET score == IF item.score.kind = "num" THEN item.score.val ELSE 0
                  content == OrStr(item.text, item.content)
                  cid == CollectionIdOf(item.meta, item.source_id)
              IN [raised |-> FALSE,
                  out |-> <<SearchResult(content, score, cid, NameOf(collections, cid))>>]
    ELSE IF item.shape = "dict"
    THEN IF item.score.kind \notin {"num", "absent"} \/ item.meta.kind = "nonmap"
         THEN [raised |-> TRUE, out |-> <<>>]
         ELSE LET score == IF item.score.kind = "num" THEN item.score.val ELSE 0
                  content == OrStr(item.content, item.text)
                  cid == CollectionIdOf(item.meta, item.source_id)
              IN [raised |-> FALSE,
                  out |-> <<SearchResult(content, score, cid, NameOf(collections, cid))>>]
    ELSE [raised |-> FALSE, out |-> <<>>]

\* the for loop over raw_results: stops at the first record that raises, with
\* the results appended so far
RECURSIVE ConvertAll(_, _)
ConvertAll(raw, collections) ==
    IF raw = <<>> THEN [raised |-> FALSE, out |-> <<>>]
    ELSE LET first == ConvertRecord(Head(raw), collections)
         IN IF first.raised THEN first
            ELSE LET rest == ConvertAll(Tail(raw), collections)
                 IN [raised |-> rest.raised, out |-> first.out \o rest.out]

-----------------------------------------------------------------------------
(* Spec: one call of unified_search *)

MaxK == 2

MaxRaw == 3

MaxMem == 1

\* the default of parameter k_reranker
k_reranker == 3

\* threshold is read by one logging statement only (line 654)
Thresholds == {5}

Queries == {<<"a", "b">>, <<"A", " ", "x">>}

KB1 == [id |-> <<"k", "b", "1">>, name |-> <<"D", "o", "c", "s">>]

KB2 == [id |-> <<"k", "b", "2">>, name |-> <<"W", "i", "k", "i">>]

DiscoveryEnvs ==
    {[fail |-> TRUE, kbs |-> <<>>], [fail |-> FALSE, kbs |-> <<>>],
     [fail |-> FALSE, kbs |-> <<KB1, KB2>>]}

MetaMap(cn) == [kind |-> "map", has_collection_name |-> TRUE, collection_name |-> cn]

MetaAbsent == [kind |-> "absent", has_collection_name |-> FALSE, collection_name |-> <<>>]

Num(v) == [kind |-> "num", val |-> v]

NonNum == [kind |-> "nonnum", val |-> 0]

RawRecord(shape, len, source_id, score, doc_is_map, text, content, meta) ==
    [shape |-> shape, len |-> len, source_id |-> source_id, score |-> score,
     doc_is_map |-> doc_is_map, text |-> text, content |-> content, meta |-> meta]

\* the record shapes the knowledge backend is drawn from
TupleOk == RawRecord("tuple", 3, <<"k", "b", "1">>, Num(9), TRUE, <<"t">>, <<"c">>,
                     MetaMap(<<"k", "b", "1">>))

TupleFallbacks == RawRecord("tuple", 3, <<"k", "b", "X">>, NonNum, TRUE, <<>>, <<"c">>,
                            MetaAbsent)

TupleDocNotMapping == RawRecord("tuple", 3, <<"k", "b", "1">>, Num(9), FALSE, <<>>, <<>>,
                                MetaAbsent)

TupleShort == RawRecord("tuple", 2, <<"k", "b", "1">>, Num(9), TRUE, <<>>, <<>>, MetaAbsent)

DictOk == RawRecord("dict", 0, <<>>, Num(6), TRUE, <<"t">>, <<"c">>,
                    MetaMap(<<"k", "b", "2">>))

DictScoreNotNumeric == RawRecord("dict", 0, <<"k", "b", "1">>, NonNum, TRUE, <<"t">>, <<>>,
                                 MetaAbsent)

OtherShape == RawRecord("other", 0, <<>>, NonNum, FALSE, <<>>, <<>>, MetaAbsent)

\* a tuple whose score is outside [0, 1], as a raw distance or a fused rank is
TupleOutOfRange == RawRecord("tuple", 3, <<"k", "b", "2">>, Num(15), TRUE, <<"t">>, <<>>,
                             MetaMap(<<"k", "b", "2">>))

\* a mapping with neither score nor metadata: the defaults apply
DictFallbacks == RawRecord("dict", 0, <<"k", "b", "1">>, [kind |-> "absent", val |-> 0],
                           TRUE, <<"t">>, <<>>, MetaAbsent)

\* the answers of the knowledge backend
RawListSamples ==
    {<<>>, <<TupleOk>>, <<DictOk>>, <<TupleDocNotMapping>>, <<DictScoreNotNumeric>>,
     <<TupleOk, DictOk>>, <<TupleFallbacks, TupleOk>>, <<TupleOk, TupleDocNotMapping>>,
     <<OtherShape, DictOk>>, <<TupleShort, TupleFallbacks>>,
     <<TupleOutOfRange, DictFallbacks>>,
     <<TupleOk, OtherShape, DictOk>>, <<DictOk, TupleOk, DictScoreNotNumeric>>,
     <<TupleFallbacks, DictOk, TupleOk>>,
     <<TupleOk, DictOk, TupleShort, TupleFallbacks>>}

KnowledgeEnvs ==
    {[called |-> TRUE, fail |-> TRUE, records |-> <<>>]}
    \cup {[called |-> TRUE, fail |-> FALSE, records |-> rs] :
            rs \in {r \in RawListSamples : Len(r) <= MaxRaw}}

Distances == {-2, 0, 3, 10, 15}

HitSamples == {[document |-> <<"m">>, distance |-> d] : d \in Distances}

Hit(d) == [document |-> <<"m">>, distance |-> d]

\* the answers of the vector index to the memory search
HitListSamples ==
    {<<>>} \cup {<<h>> : h \in HitSamples}
    \cup {<<Hit(0), Hit(3)>>, <<Hit(15), Hit(3)>>, <<Hit(-2), Hit(10)>>,
          <<Hit(3), Hit(0), Hit(15)>>, <<Hit(10), Hit(-2), Hit(3)>>}

\* the vector index answers at most limit = k neighbours
MemEnvs(kk) ==
    {[called |-> TRUE, fail |-> TRUE, fail_at |-> at, owned |-> 1, hits |-> <<>>] :
        at \in {"store", "embed", "search"}}
    \cup {[called |-> TRUE, fail |-> FALSE, fail_at |-> "none", owned |-> 0, hits |-> <<>>]}
    \cup {[called |-> TRUE, fail |-> FALSE, fail_at |-> "none", owned |-> 1, hits |-> hs] :
            hs \in {h \in HitListSamples : Len(h) <= Min2(kk, MaxMem)}}

Note(id, title, data) == [id |-> id, title |-> title, data |-> data]

DataDict(md, text) == [kind |-> "dict", md |-> md, text |-> text, str |-> <<>>]

DataStr(str) == [kind |-> "str", md |-> <<>>, text |-> <<>>, str |-> str]

DataNone == [kind |-> "none", md |-> <<>>, text |-> <<>>, str |-> <<>>]

N1 == Note(<<"n", "1">>, <<"A", "b">>, DataDict(<<"x", " ", "y">>, <<>>))

N2 == Note(<<"n", "2">>, <<"X">>, DataStr(<<"z", "a", "b">>))

N3 == Note(<<"n", "3">>, <<"z", "z">>, DataNone)

N4 == Note(<<"n", "4">>, <<>>, DataDict(<<>>, <<"a", " ", "x">>))

NoteStores == {<<>>, <<N1, N2>>, <<N3, N4, N1>>, <<N2, N3>>}

StoreEnvs(stores) ==
    {[called |-> TRUE, fail |-> TRUE, items |-> <<>>]}
    \cup {[called |-> TRUE, fail |-> FALSE, items |-> st] : st \in stores}

Prompt(command, title, content) ==
    [command |-> command, title |-> title, content |-> content]

P1 == Prompt(<<"a", "b">>, <<"T">>, <<"a">>)

P2 == Prompt(<<"z">>, <<"x", " ", "A", "b">>, <<>>)

P3 == Prompt(<<"q">>, <<>>, <<"z", "z", "x">>)

PromptStores == {<<>>, <<P1, P2>>, <<P3, P2, P1>>, <<P3>>}

DiscNotCalled == [fail |-> FALSE, kbs |-> <<>>]

KnNotCalled == [called |-> FALSE, fail |-> FALSE, records |-> <<>>]

MemNotCalled ==
    [called |-> FALSE, fail |-> FALSE, fail_at |-> "none", owned |-> 0, hits |-> <<>>]

StoreNotCalled == [called |-> FALSE, fail |-> FALSE, items |-> <<>>]

NoResult == UnifiedSearchResultArgs(<<>>, 0, 0, <<>>, <<>>)

Init ==
    /\ pc = "discover"
    /\ k \in 0..MaxK
    /\ threshold \in Thresholds
    /\ hybrid_search \in BOOLEAN
    /\ query \in Queries
    /\ reranking_function \in BOOLEAN
    /\ rerank_calls = <<>>
    /\ disc_env = DiscNotCalled
    /\ collections_with_names = <<>>
    /\ raw_results = <<>>
    /\ search_results = <<>>
    /\ memory_results = <<>>
    /\ note_results = <<>>
    /\ prompt_results = <<>>
    /\ kn_env = KnNotCalled
    /\ mem_env = MemNotCalled
    /\ mem_calls = <<>>
    /\ notes_env = StoreNotCalled
    /\ prompts_env = StoreNotCalled
    /\ result = NoResult
    /\ via_except = FALSE
    /\ UsrIdle
    /\ CtxIdle
    /\ SaveIdle

\* an assignment where the code extends
ExtendReplaces(acc, more) == more

\* list.extend
Extend(acc, more) == acc \o more

\* an outer handler that lets the exception through
OnExceptionPropagates(q) ==
    {[pc |-> "raised", result |-> UnifiedSearchResultArgs(<<>>, 0, 0, <<>>, q)]}

\* the outer except of unified_search (lines 664-666): where the call ends and
\* what it returns
OnException(q) ==
    {[pc |-> "done", result |-> r] : r \in NewUnifiedSearchResult(<<>>, q)}

CollectionIds == [i \in 1..Len(collections_with_names) |-> collections_with_names[i][1]]

\* line 533
GetAllUserCollections ==
    /\ pc = "discover"
    /\ \E env \in DiscoveryEnvs :
         /\ disc_env' = env
         /\ collections_with_names' = get_all_user_collections(env)
    /\ pc' = "knowledge"
    /\ UNCHANGED <<par_vars, rerank_calls, mem_calls, raw_results, search_results,
                   memory_results, note_results, prompt_results, kn_env, mem_env,
                   notes_env, prompts_env, result, via_except, usr_vars, ctx_vars, save_vars>>

\* a discovery without collections that ends the call with an empty result
SkipKnowledgeReturnsEarly ==
    /\ pc = "knowledge"
    /\ collections_with_names = <<>>
    /\ result' \in NewUnifiedSearchResult(<<>>, query)
    /\ pc' = "done"
    /\ UNCHANGED <<par_vars, rerank_calls, mem_calls, disc_env, collections_with_names,
                   raw_results, search_results, memory_results, note_results,
                   prompt_results, kn_env, mem_env, notes_env, prompts_env,
                   via_except, usr_vars, ctx_vars, save_vars>>

\* line 536, no collection
SkipKnowledge ==
    /\ pc = "knowledge"
    /\ collections_with_names = <<>>
    /\ pc' = "memories"
    /\ UNCHANGED <<par_vars, rerank_calls, mem_calls, disc_env, collections_with_names,
                   raw_results, search_results, memory_results, note_results,
                   prompt_results, kn_env, mem_env, notes_env, prompts_env, result,
                   via_except, usr_vars, ctx_vars, save_vars>>

\* lines 550-557
SearchCollections ==
    /\ pc = "knowledge"
    /\ collections_with_names # <<>>
    /\ ~hybrid_search
    /\ \E env \in KnowledgeEnvs :
         /\ kn_env' = env
         /\ raw_results' = search_collections(CollectionIds, env)
    /\ pc' = "convert"
    /\ UNCHANGED <<par_vars, rerank_calls, mem_calls, disc_env, collections_with_names,
                   search_results, memory_results, note_results, prompt_results,
                   mem_env, notes_env, prompts_env, result, via_except, usr_vars,
                   ctx_vars, save_vars>>

\* lines 541-549
SearchCollectionsHybrid ==
    /\ pc = "knowledge"
    /\ collections_with_names # <<>>
    /\ hybrid_search
    /\ \E env \in KnowledgeEnvs :
         /\ kn_env' = env
         /\ raw_results' = search_collections_hybrid(CollectionIds, env)
    /\ pc' = "convert"
    /\ UNCHANGED <<par_vars, rerank_calls, mem_calls, disc_env, collections_with_names,
                   search_results, memory_results, note_results, prompt_results,
                   mem_env, notes_env, prompts_env, result, via_except, usr_vars,
                   ctx_vars, save_vars>>

\* lines 560-600, no record raises
ConvertRawResults ==
    /\ pc = "convert"
    /\ LET c == ConvertAll(raw_results, collections_with_names)
       IN /\ ~c.raised
          /\ search_results' = Extend(search_results, c.out)
    /\ pc' = "memories"
    /\ UNCHANGED <<par_vars, rerank_calls, mem_calls, disc_env, collections_with_names,
                   raw_results, memory_results, note_results, prompt_results,
                   kn_env, mem_env, notes_env, prompts_env, result, via_except,
                   usr_vars, ctx_vars, save_vars>>

\* lines 560-600, a record raises: control passes to the outer except
ConvertRaises ==
    /\ pc = "convert"
    /\ LET c == ConvertAll(raw_results, collections_with_names)
       IN /\ c.raised
          /\ search_results' = Extend(search_results, c.out)
    /\ \E o \in OnException(query) : pc' = o.pc /\ result' = o.result
    /\ via_except' = TRUE
    /\ UNCHANGED <<par_vars, rerank_calls, mem_calls, disc_env, collections_with_names,
                   raw_results, memory_results, note_results, prompt_results,
                   kn_env, mem_env, notes_env, prompts_env, usr_vars, ctx_vars, save_vars>>

\* lines 602-613
SearchMemories ==
    /\ pc = "memories"
    /\ \E env \in MemEnvs(k) :
         /\ mem_env' = env
         /\ memory_results' = search_memories(env)
         /\ mem_calls' = MemoryCalls(env)
    /\ search_results' = Extend(search_results, memory_results')
    /\ pc' = "notes"
    /\ UNCHANGED <<par_vars, rerank_calls, disc_env, collections_with_names,
                   raw_results, note_results, prompt_results, kn_env, notes_env,
                   prompts_env, result, via_except, usr_vars, ctx_vars, save_vars>>

\* lines 615-625
SearchNotes ==
    /\ pc = "notes"
    /\ \E env \in StoreEnvs(NoteStores) :
         /\ notes_env' = env
         /\ note_results' = search_notes(env, query, k)
    /\ search_results' = Extend(search_results, note_results')
    /\ pc' = "prompts"
    /\ UNCHANGED <<par_vars, rerank_calls, mem_calls, disc_env, collections_with_names,
                   raw_results, memory_results, prompt_results, kn_env, mem_env,
                   prompts_env, result, via_except, usr_vars, ctx_vars, save_vars>>

\* lines 627-637
SearchPrompts ==
    /\ pc = "prompts"
    /\ \E env \in StoreEnvs(PromptStores) :
         /\ prompts_env' = env
         /\ prompt_results' = search_prompts(env, query, k)
    /\ search_results' = Extend(search_results, prompt_results')
    /\ pc' = "merge"
    /\ UNCHANGED <<par_vars, rerank_calls, mem_calls, disc_env, collections_with_names,
                   raw_results, memory_results, note_results, kn_env, mem_env,
                   notes_env, result, via_except, usr_vars, ctx_vars, save_vars>>

\* lines 640-642
ReturnEmpty ==
    /\ pc = "merge"
    /\ search_results = <<>>
    /\ result' \in NewUnifiedSearchResult(<<>>, query)
    /\ pc' = "done"
    /\ UNCHANGED <<par_vars, rerank_calls, mem_calls, disc_env, collections_with_names,
                   raw_results, search_results, memory_results, note_results,
                   prompt_results, kn_env, mem_env, notes_env, prompts_env,
                   via_except, usr_vars, ctx_vars, save_vars>>

\* lines 644-662: sort in place, slice, construct, return
SortAndCap ==
    /\ pc = "merge"
    /\ search_results # <<>>
    /\ search_results' = SortDesc(search_results)
    /\ result' \in NewUnifiedSearchResult(Take(search_results', k), query)
    /\ pc' = "done"
    /\ UNCHANGED <<par_vars, rerank_calls, mem_calls, disc_env, collections_with_names,
                   raw_results, memory_results, note_results, prompt_results,
                   kn_env, mem_env, notes_env, prompts_env, via_except, usr_vars,
                   ctx_vars, save_vars>>

Next ==
    \/ GetAllUserCollections
    \/ SkipKnowledge
    \/ SearchCollections
    \/ SearchCollectionsHybrid
    \/ ConvertRawResults
    \/ ConvertRaises
    \/ SearchMemories
    \/ SearchNotes
    \/ SearchPrompts
    \/ ReturnEmpty
    \/ SortAndCap

Spec == Init /\ [][Next]_vars

-----------------------------------------------------------------------------
(* Properties of unified_search *)

IsPrefix(a, b) == Len(a) <= Len(b) /\ SubSeq(b, 1, Len(a)) = a

IsSortedDesc(s) == \A i \in 1..Len(s) : \A j \in i..Len(s) : s[i].score >= s[j].score

\* m regrouped by score, highest score first, each group in the order of m
RECURSIVE ByScoreDesc(_, _)
ByScoreDesc(m, scores) ==
    IF scores = {} THEN <<>>
    ELSE LET top == MaxOf(scores)
         IN SelectSeq(m, LAMBDA r : r.score = top) \o ByScoreDesc(m, scores \ {top})

GroupedDesc(m) == ByScoreDesc(m, {m[i].score : i \in 1..Len(m)})

\* what each source contributed: nothing when it was not called or failed
KnowledgePart == ConvertAll(raw_results, collections_with_names).out

MemoryPart == IF mem_env.called /\ ~mem_env.fail THEN search_memories(mem_env) ELSE <<>>

NotesPart ==
    IF notes_env.called /\ ~notes_env.fail THEN search_notes(notes_env, query, k) ELSE <<>>

PromptsPart ==
    IF prompts_env.called /\ ~prompts_env.fail THEN search_prompts(prompts_env, query, k)
    ELSE <<>>

MergedFromSources == KnowledgePart \o MemoryPart \o NotesPart \o PromptsPart

\* C3: unified_search never raises: every call ends by returning a
\* UnifiedSearchResult carrying the original query, and when all four adapters
\* failed or returned nothing its results are empty and total_count is 0.
C3_NeverRaises ==
    /\ pc \in {"discover", "knowledge", "convert", "memories", "notes", "prompts",
               "merge", "done"}
    /\ (pc = "done") =>
         /\ result.query = query
         /\ result.total_count = Len(result.results)
    /\ (pc = "done" /\ raw_results = <<>> /\ memory_results = <<>>
          /\ note_results = <<>> /\ prompt_results = <<>>) =>
         /\ result.results = <<>>
         /\ result.total_count = 0
         /\ result.query = query

C3_Witness ==
    /\ pc = "done"
    /\ kn_env.called /\ kn_env.fail
    /\ mem_env.fail /\ notes_env.fail /\ prompts_env.fail

\* C4: the failure of the memory, note or prompt adapter does not block or
\* discard the other sources: the merged list before sort and cap is the
\* concatenation of what every source that did not fail returned, with nothing
\* from a source that failed, and the merge is reached with all three called.
C4_FailureIsolated ==
    /\ (pc \in {"memories", "notes", "prompts", "merge"}) =>
         search_results = MergedFromSources
    /\ (pc = "merge") => (mem_env.called /\ notes_env.called /\ prompts_env.called)

C4_Witness ==
    /\ pc = "merge"
    /\ notes_env.fail
    /\ KnowledgePart # <<>>
    /\ memory_results # <<>>
    /\ prompt_results # <<>>

\* C5: a failing knowledge search (the backend raises, or a record is
\* malformed) counts as zero knowledge results: the memory, note and prompt
\* adapters are still queried and their results returned.
C5_KnowledgeFailureIsolated ==
    (pc = "done" /\ (kn_env.fail \/ ConvertAll(raw_results, collections_with_names).raised)) =>
        /\ mem_env.called /\ notes_env.called /\ prompts_env.called
        /\ result.results =
             Take(GroupedDesc(memory_results \o note_results \o prompt_results), k)

\* C6: the returned results are in descending order of score and results of
\* equal score keep their concatenation order (knowledge, memories, notes,
\* prompts).
C6_SortedStable ==
    (pc = "done") =>
        /\ IsSortedDesc(result.results)
        /\ IsPrefix(result.results, GroupedDesc(MergedFromSources))

C6_Witness ==
    /\ pc = "done"
    /\ Len(result.results) >= 2
    /\ result.results[1].score = result.results[2].score
    /\ result.results[1] # result.results[2]
    /\ ~IsSortedDesc(MergedFromSources)

\* C7: for every k >= 0 the call returns at most k results, exactly the first
\* k of the merged sequence sorted by score.
C7_TopK ==
    (pc = "done") =>
        /\ Len(result.results) <= k
        /\ result.results = Take(GroupedDesc(MergedFromSources), k)

\* C8: the filtering variant, selected by the caller through threshold, keeps
\* only the results with score >= threshold and then caps to k.
C8_FilterVariant ==
    (pc = "done" /\ ~via_except) =>
        result.results =
            Take(SelectSeq(GroupedDesc(MergedFromSources),
                           LAMBDA r : r.score >= threshold), k)

\* clamp(x, 0, 1) by cases
ClampSpec(x) == IF x < 0 THEN 0 ELSE IF x > ONE THEN ONE ELSE x

\* C10: search_memories gives every neighbour of distance d the score
\* clamp(1 - d, 0, 1), so 0 gives 1.0, 1 gives 0.0, 1.5 gives 0.0 and -0.2
\* gives 1.0, and every memory score lies in [0, 1].
C10_MemoryScoreClamped ==
    (mem_env.called /\ ~mem_env.fail /\ mem_env.owned > 0) =>
        /\ Len(memory_results) = Len(mem_env.hits)
        /\ \A i \in 1..Len(mem_env.hits) :
             LET d == mem_env.hits[i].distance
                 sc == memory_results[i].score
             IN /\ sc = ClampSpec(ONE - d)
                /\ sc >= 0 /\ sc <= ONE
                /\ (d = 0 => sc = 10)
                /\ (d = 10 => sc = 0)
                /\ (d = 15 => sc = 0)
                /\ (d = -2 => sc = 10)

C10_Witness ==
    /\ mem_env.called /\ ~mem_env.fail
    /\ \E i \in 1..Len(mem_env.hits) :
         mem_env.hits[i].distance = 15 /\ memory_results[i].score = 0

\* the returned results that came from a vector-derived source: the knowledge
\* search (dense or hybrid) or the memory search
VectorDerived(rs) ==
    SelectSeq(rs, LAMBDA r : \/ \E i \in 1..Len(KnowledgePart) : KnowledgePart[i] = r
                             \/ \E i \in 1..Len(MemoryPart) : MemoryPart[i] = r)

\* C11: every result of a vector-derived source (knowledge, dense or hybrid,
\* and memories) that unified_search returns has a score in [0, 1], whatever
\* score or distance the backend record carries.
C11_VectorScoresInUnitRange ==
    (pc = "done") =>
        \A i \in 1..Len(VectorDerived(result.results)) :
            /\ VectorDerived(result.results)[i].score >= 0
            /\ VectorDerived(result.results)[i].score <= ONE

\* points is what the rule "exact if the whole query is a substring of the
\* field, else word if some whitespace-delimited word of the query is, else 0"
\* gives, query and field compared lower-cased
FieldRule(points, q, field, exact, word) ==
    LET ql == Lower(q)
        fl == Lower(field)
        whole == \E i \in 0..(Len(fl) - Len(ql)) : SubSeq(fl, i + 1, i + Len(ql)) = ql
        some == \E w \in Words(ql) :
                    \E i \in 0..(Len(fl) - Len(w)) : SubSeq(fl, i + 1, i + Len(w)) = w
    IN /\ whole => points = exact
       /\ (~whole /\ some) => points = word
       /\ (~whole /\ ~some) => points = 0

\* the points the rule gives one field
RulePoints(q, field, exact, word) ==
    CHOOSE points \in {0, word, exact} : FieldRule(points, q, field, exact, word)

\* sc is the score the rule of search_notes gives the note
NoteRule(sc, note, q) ==
    sc = RulePoints(q, note.title, 10, 5) + RulePoints(q, NoteContent(note), 7, 3)

\* C12: search_notes scores a note 1.0 / 0.5 / 0 on its title (whole query /
\* some query word / neither, lower-cased) plus 0.7 / 0.3 / 0 on its content;
\* the score is the sum, at most 1.7, and a note is returned only if its score
\* is > 0 (every such note is, up to the cap k).
C12_NoteScoring ==
    (pc = "prompts" /\ ~notes_env.fail) =>
        LET items == notes_env.items
            positive == {i \in 1..Len(items) : ~NoteRule(0, items[i], query)}
        IN /\ \A n \in 1..Len(note_results) :
                \E i \in 1..Len(items) :
                    /\ note_results[n].source = items[i].id
                    /\ NoteRule(note_results[n].score, items[i], query)
                    /\ note_results[n].score > 0
                    /\ note_results[n].score <= 17
           /\ Len(note_results) = Min2(k, Cardinality(positive))

\* a title word match plus a content word match, a content-only exact match,
\* and a note of score 0 left out
C12_Witness ==
    /\ pc = "prompts" /\ ~notes_env.fail
    /\ Len(notes_env.items) = 3
    /\ Len(note_results) = 2
    /\ note_results[1].score = 8
    /\ note_results[2].score = 7

\* sc is the score the rule of search_prompts gives the prompt
PromptRule(sc, prompt, q) ==
    sc = RulePoints(q, prompt.command, 10, 6) + RulePoints(q, prompt.title, 8, 4)
         + RulePoints(q, prompt.content, 6, 2)

\* C13: search_prompts scores a prompt as the sum over command, title and
\* content of the exact weight (1.0, 0.8, 0.6) when the whole lower-cased query
\* is a substring of the lower-cased field, else the word weight (0.6, 0.4,
\* 0.2) when some query word is, else 0; a prompt is returned only if its
\* score is > 0 (every such prompt is, up to the cap k).
C13_PromptScoring ==
    (pc = "merge" /\ ~prompts_env.fail) =>
        LET items == prompts_env.items
            positive == {i \in 1..Len(items) : ~PromptRule(0, items[i], query)}
        IN /\ \A n \in 1..Len(prompt_results) :
                \E i \in 1..Len(items) :
                    /\ prompt_results[n].source = items[i].command
                    /\ PromptRule(prompt_results[n].score, items[i], query)
                    /\ prompt_results[n].score > 0
           /\ Len(prompt_results) = Min2(k, Cardinality(positive))

\* a command word match plus a content word match first, a title word match
\* second
C13_Witness ==
    /\ pc = "merge" /\ ~prompts_env.fail
    /\ Len(prompts_env.items) >= 2
    /\ Len(prompt_results) = 2
    /\ prompt_results[1].score = 8
    /\ prompt_results[2].score = 4

\* C14: when a reranking function is supplied, unified_search invokes it after
\* the merge, sort and cap and before returning, with the query and the top
\* k_reranker merged results.
C14_RerankerInvoked ==
    (pc = "done" /\ reranking_function /\ ~via_except /\ result.results # <<>>) =>
        /\ Len(rerank_calls) = 1
        /\ rerank_calls[1].query = query
        /\ rerank_calls[1].results = Take(Take(GroupedDesc(MergedFromSources), k), k_reranker)

\* C15: when the discovery returns no readable collection, or fails, the
\* knowledge search is skipped without being an error: no knowledge query is
\* issued, the memory, note and prompt adapters are each invoked and what they
\* return is returned (sorted and capped).
C15_NoCollectionsSkipsKnowledge ==
    (pc # "discover" /\ (disc_env.fail \/ disc_env.kbs = <<>>)) =>
        /\ collections_with_names = <<>>
        /\ ~kn_env.called /\ raw_results = <<>>
        /\ pc # "convert"
        /\ ~via_except
        /\ (pc = "done") =>
             /\ mem_env.called /\ notes_env.called /\ prompts_env.called
             /\ result.results =
                  Take(GroupedDesc(memory_results \o note_results \o prompt_results), k)

\* the discovery failed and the three other sources all contributed
C15_Witness ==
    /\ pc = "done"
    /\ disc_env.fail
    /\ memory_results # <<>> /\ note_results # <<>> /\ prompt_results # <<>>
    /\ Len(result.results) = 2

\* tuple-like with at least 3 elements, or mapping-like
WellFormedShape(item) == (item.shape = "tuple" /\ item.len >= 3) \/ item.shape = "dict"

\* C17: a raw knowledge record that is neither tuple-like with at least 3
\* elements nor mapping-like is skipped silently: it adds no result, it raises
\* nothing, and the well-formed records before and after it are converted as
\* if it were not there.
C17_MalformedShapeSkipped ==
    LET kept == SelectSeq(raw_results, WellFormedShape)
    IN /\ (pc = "memories" /\ kn_env.called) =>
            /\ search_results = ConvertAll(kept, collections_with_names).out
            /\ Len(search_results) = Len(kept)
       /\ via_except => ConvertAll(kept, collections_with_names).raised

C17_Witness ==
    /\ pc = "memories"
    /\ raw_results = <<TupleOk, OtherShape, DictOk>>
    /\ Len(search_results) = 2
    /\ search_results[1].content = <<"t">>
    /\ search_results[2].source = <<"k", "b", "2">>

\* C18: for every converted knowledge record, of either shape, source is the
\* collection_name of the record's metadata when it has one and the record's
\* raw source id otherwise, and source_name is the display name the discovery
\* gave for that id, or "Unknown" when it gave none.
C18_SourceResolution ==
    (pc = "memories" /\ kn_env.called) =>
        LET kept == SelectSeq(raw_results, WellFormedShape)
        IN /\ Len(search_results) = Len(kept)
           /\ \A i \in 1..Len(kept) :
                LET r == search_results[i]
                    known == {j \in 1..Len(collections_with_names) :
                                collections_with_names[j][1] = r.source}
                IN /\ kept[i].meta.has_collection_name =>
                        r.source = kept[i].meta.collection_name
                   /\ ~kept[i].meta.has_collection_name => r.source = kept[i].source_id
                   /\ \A j \in known : r.source_name = collections_with_names[j][2]
                   /\ (known = {}) => r.source_name = <<"U", "n", "k", "n", "o", "w", "n">>

\* a tuple without metadata whose source id is no collection of the user, a
\* mapping and a tuple named by their metadata
C18_Witness ==
    /\ pc = "memories"
    /\ raw_results = <<TupleFallbacks, DictOk, TupleOk>>
    /\ search_results[1].source = <<"k", "b", "X">>
    /\ search_results[1].source_name = <<"U", "n", "k", "n", "o", "w", "n">>
    /\ search_results[2].source_name = <<"W", "i", "k", "i">>
    /\ search_results[3].source_name = <<"D", "o", "c", "s">>

\* C19: for every converted knowledge record, of either shape, content is the
\* first non-empty of the record's text, then its content.
C19_ContentTextFirst ==
    (pc = "memories" /\ kn_env.called) =>
        LET kept == SelectSeq(raw_results, WellFormedShape)
        IN /\ Len(search_results) = Len(kept)
           /\ \A i \in 1..Len(kept) :
                search_results[i].content =
                    (IF kept[i].text # <<>> THEN kept[i].text ELSE kept[i].content)

\* C20: search_memories looks up the user's memories before anything else,
\* and when the user owns none it returns an empty list at once: neither the
\* embedding function nor the vector index search is called.
C20_OwnershipCheckedFirst ==
    mem_env.called =>
        /\ mem_calls # <<>> /\ mem_calls[1] = "get_memories_by_user_id"
        /\ (mem_env.owned = 0 /\ ~mem_env.fail) =>
             /\ memory_results = <<>>
             /\ mem_calls = <<"get_memories_by_user_id">>
        /\ (\E n \in 1..Len(mem_calls) : mem_calls[n] \in {"embedding_function", "search"})
             => mem_env.owned > 0

\* a user without memories whose notes still answer
C20_Witness ==
    /\ pc = "done"
    /\ mem_env.called /\ ~mem_env.fail /\ mem_env.owned = 0
    /\ mem_calls = <<"get_memories_by_user_id">>
    /\ note_results # <<>>

\* the matching items of a lexical adapter, in the listing order of the store
MatchingNotes ==
    SelectSeq([i \in 1..Len(notes_env.items) |-> NoteResult(notes_env.items[i], query)],
              LAMBDA r : r.score > 0)

MatchingPrompts ==
    SelectSeq([i \in 1..Len(prompts_env.items) |-> PromptResult(prompts_env.items[i], query)],
              LAMBDA r : r.score > 0)

\* rs is the k highest-scoring of matching, descending, ties in listing order
IsTopK(rs, matching) ==
    /\ Len(rs) <= k
    /\ IsSortedDesc(rs)
    /\ \A i \in 1..Len(rs) : rs[i].score > 0
    /\ rs = Take(GroupedDesc(matching), k)

\* C21: search_notes and search_prompts each return at most k results, in
\* descending order of score, every one of score > 0: the k highest-scoring
\* matching items, ties kept in the listing order of the store.
C21_LexicalTopK ==
    (pc = "merge") =>
        /\ ~notes_env.fail => IsTopK(note_results, MatchingNotes)
        /\ ~prompts_env.fail => IsTopK(prompt_results, MatchingPrompts)

\* two notes tied at the top in listing order, and the best of three matching
\* prompts listed last
C21_Witness ==
    /\ pc = "merge" /\ k = 2
    /\ Len(note_results) = 2
    /\ note_results[1].score = note_results[2].score
    /\ note_results[1].source = notes_env.items[1].id
    /\ Len(MatchingPrompts) = 3
    /\ Len(prompt_results) = 2
    /\ prompt_results[1].source = prompts_env.items[3].command

\* every adapter has returned or failed: the knowledge search when there is a
\* collection to search, and the memory, note and prompt adapters
AllAdaptersAnswered ==
    /\ (collections_with_names # <<>>) => kn_env.called
    /\ mem_env.called /\ notes_env.called /\ prompts_env.called

\* C22: within one call the merge (sort and cap) happens only after every
\* adapter has returned or failed, no adapter is skipped because of the
\* outcome of another, and each adapter's answer depends on its own store and
\* the call's arguments only.
C22_AllAdaptersBeforeMerge ==
    /\ (pc \in {"merge", "done"}) => AllAdaptersAnswered
    /\ (pc = "merge") =>
         /\ memory_results = search_memories(mem_env)
         /\ note_results = search_notes(notes_env, query, k)
         /\ prompt_results = search_prompts(prompts_env, query, k)

\* C23: the content of every note search_notes returns is the note's title as
\* stored, a blank line and the first 500 characters of the note's content,
\* or the title alone when the note has no content.
C23_NoteContentFormat ==
    (pc = "prompts" /\ ~notes_env.fail) =>
        \A n \in 1..Len(note_results) :
            \A i \in 1..Len(notes_env.items) :
                LET note == notes_env.items[i]
                    body == NoteContent(note)
                IN (note_results[n].source = note.id) =>
                       note_results[n].content =
                           (IF body # <<>>
                            THEN note.title \o <<"\n", "\n">>
                                 \o SubSeq(body, 1, Min2(Len(body), 500))
                            ELSE note.title)

-----------------------------------------------------------------------------
(* SpecContext: one call of get_search_context *)

MaxCtxResults == 3

MaxChars == 50

\* str.strip(): leading and trailing whitespace removed
RECURSIVE LStrip(_)
LStrip(s) == IF s # <<>> /\ IsSpace(Head(s)) THEN LStrip(Tail(s)) ELSE s

RECURSIVE RStrip(_)
RStrip(s) ==
    IF s # <<>> /\ IsSpace(s[Len(s)]) THEN RStrip(SubSeq(s, 1, Len(s) - 1)) ELSE s

Strip(s) == RStrip(LStrip(s))

\* result_text = f"[Source: {result.source_name}] {result.content}\n\n"
FormatResult(r) ==
    <<"[", "S", "o", "u", "r", "c", "e", ":", " ">> \o r.source_name \o <<"]", " ">>
    \o r.content \o <<"\n", "\n">>

\* an off-by-one budget test
FitsStrictly(cur, text, max) == cur + Len(text) < max

\* not (current_length + len(result_text) > max_context_length)
Fits(cur, text, max) == ~(cur + Len(text) > max)

CtxSamples ==
    {SearchResult(<<"a">>, 0, <<"s">>, <<"X">>),
     SearchResult(<<"b", " ">>, 0, <<"s">>, <<"X">>),
     SearchResult(<<>>, 0, <<"s">>, <<"K", "b">>),
     SearchResult(<<"\n", "c">>, 0, <<"s">>, <<"K", "b">>)}

InitContext ==
    /\ ctx_pc = "loop"
    /\ ctx_results \in SeqsUpTo(CtxSamples, MaxCtxResults)
    /\ max_context_length \in 0..MaxChars
    /\ ctx_i = 1
    /\ context_parts = <<>>
    /\ current_length = 0
    /\ context = <<>>
    /\ UsrIdle
    /\ UsIdle
    /\ SaveIdle

\* lines 683-684
CtxReturnEmpty ==
    /\ ctx_pc = "loop"
    /\ ctx_results = <<>>
    /\ context' = <<>>
    /\ ctx_pc' = "done"
    /\ UNCHANGED <<ctx_results, max_context_length, ctx_i, context_parts,
                   current_length, usr_vars, us_vars, save_vars>>

\* lines 689-699: one iteration that appends
CtxAppend ==
    /\ ctx_pc = "loop"
    /\ ctx_i <= Len(ctx_results)
    /\ LET result_text == FormatResult(ctx_results[ctx_i])
       IN /\ Fits(current_length, result_text, max_context_length)
          /\ context_parts' = Append(context_parts, result_text)
          /\ current_length' = current_length + Len(result_text)
    /\ ctx_i' = ctx_i + 1
    /\ UNCHANGED <<ctx_pc, ctx_results, max_context_length, context, usr_vars, us_vars, save_vars>>

\* lines 695-696 and 701-705: the iteration that breaks, then join and strip
CtxBreak ==
    /\ ctx_pc = "loop"
    /\ ctx_i <= Len(ctx_results)
    /\ ~Fits(current_length, FormatResult(ctx_results[ctx_i]), max_context_length)
    /\ context' = Strip(Flatten(context_parts))
    /\ ctx_pc' = "done"
    /\ UNCHANGED <<ctx_results, max_context_length, ctx_i, context_parts,
                   current_length, usr_vars, us_vars, save_vars>>

\* lines 701-705: the loop ran out of results, then join and strip
CtxExhausted ==
    /\ ctx_pc = "loop"
    /\ ctx_results # <<>>
    /\ ctx_i > Len(ctx_results)
    /\ context' = Strip(Flatten(context_parts))
    /\ ctx_pc' = "done"
    /\ UNCHANGED <<ctx_results, max_context_length, ctx_i, context_parts,
                   current_length, usr_vars, us_vars, save_vars>>

NextContext == CtxReturnEmpty \/ CtxAppend \/ CtxBreak \/ CtxExhausted

SpecContext == InitContext /\ [][NextContext]_vars

\* the total formatted length of the first n results
RECURSIVE FormattedLen(_, _)
FormattedLen(rs, n) ==
    IF n = 0 THEN 0 ELSE FormattedLen(rs, n - 1) + Len(FormatResult(rs[n]))

\* the length of the longest prefix of rs whose formatted length is within max
LongestPrefixLen(rs, max) ==
    MaxOf({n \in 0..Len(rs) : FormattedLen(rs, n) <= max})

\* C9: get_search_context returns at most max_chars characters: the formatted
\* entries of the longest prefix of results that fits the budget, joined, with
\* trailing whitespace stripped; the first result that overflows and all after
\* it are dropped whole.
C9_ContextIsLongestPrefix ==
    (ctx_pc = "done") =>
        LET n == LongestPrefixLen(ctx_results, max_context_length)
        IN /\ Len(context) <= max_context_length
           /\ context = RStrip(Flatten([i \in 1..n |-> FormatResult(ctx_results[i])]))

\* a result overflowed and was dropped although a later, smaller one would fit
C9_Witness ==
    /\ ctx_pc = "done"
    /\ Len(context_parts) >= 1
    /\ Len(context_parts) + 2 <= Len(ctx_results)
    /\ current_length + Len(FormatResult(ctx_results[Len(context_parts) + 2]))
         <= max_context_length

-----------------------------------------------------------------------------
(* SpecSave: two calls of save_extracted_memories for the same user.  The
   function takes no lock and both stores are services shared by every worker
   of the application, so the store operations of two calls interleave; one
   action is one store operation with the local statements around it.
   Similarities are in hundredths. *)

MaxMemories == 2

Calls == {1, 2}

\* SIMILARITY_THRESHOLD = 0.85
SIMILARITY_THRESHOLD == 85

TextX == <<"x">>

TextXPadded == <<" ", "x", " ">>

TextXBang == <<"x", "!">>

TextY == <<"y">>

\* the value the vector index reports for two texts in its distances array,
\* which line 269 reads as a similarity (1.0 = perfect match)
Similarity(a, b) ==
    IF a = b THEN 100
    ELSE IF {a, b} = {TextX, TextXBang} THEN 85
    ELSE 30

\* the memories arguments
MemoryListSamples ==
    {<<TextX>>, <<TextXPadded>>, <<TextXBang>>, <<TextY, TextX>>, <<TextX, TextX>>,
     <<<<" ">>, TextXPadded>>, <<<<>>, TextY>>,
     <<TextY, <<" ", "\n">>, TextXBang>>}

\* a row of the SQL table; by is the call that inserted it (0: it was there
\* before), check how its duplicate check ended
MemoryRow(text, by, check) == [text |-> text, by |-> by, check |-> check]

TableSamples == {<<>>, <<MemoryRow(TextX, 0, "clear")>>}

\* the locals of one call at its start
SaveLocals(memories) ==
    [pc |-> "loop", memories |-> memories, i |-> 1, saved_count |-> 0,
     check |-> "none", row |-> 0]

InitSave ==
    /\ memory_table \in TableSamples
    /\ vector_collection = 1..Len(memory_table)
    /\ sv \in [Calls -> {SaveLocals(m) : m \in {l \in MemoryListSamples :
                                                  Len(l) <= MaxMemories}}]
    /\ UsrIdle
    /\ UsIdle
    /\ CtxIdle

\* not memory_content or not memory_content.strip()
IsBlank(memory_content) == \A n \in 1..Len(memory_content) : IsSpace(memory_content[n])

memory_content(p) == sv[p].memories[sv[p].i]

\* at the head of the for loop with an entry left
InLoop(p) == sv[p].pc = "loop" /\ sv[p].i <= Len(sv[p].memories)

\* a failure that ends the call instead of the entry
NextMemoryAborts(l) == [l EXCEPT !.pc = "done", !.check = "none", !.row = 0]

\* continue: on to the next entry
NextMemory(l) == [l EXCEPT !.pc = "loop", !.i = @ + 1, !.check = "none", !.row = 0]

\* VECTOR_DB_CLIENT.search(limit=1).distances[0]: the value of the nearest
\* row of the collection, nothing when the collection is empty
Nearest(text) ==
    IF vector_collection = {} THEN <<>>
    ELSE <<MaxOf({Similarity(text, memory_table[r].text) : r \in vector_collection})>>

\* similarity >= SIMILARITY_THRESHOLD
IsDuplicate(similarity) == similarity >= SIMILARITY_THRESHOLD

\* lines 239-240
SaveSkipBlank(p) ==
    /\ InLoop(p)
    /\ IsBlank(memory_content(p))
    /\ sv' = [sv EXCEPT ![p] = NextMemory(@)]
    /\ UNCHANGED <<memory_table, vector_collection, usr_vars, us_vars, ctx_vars>>

\* lines 247-249 raise: the outer except (303-305) goes on to the next entry
SaveEmbeddingRaises(p) ==
    /\ InLoop(p)
    /\ ~IsBlank(memory_content(p))
    /\ sv' = [sv EXCEPT ![p] = NextMemory(@)]
    /\ UNCHANGED <<memory_table, vector_collection, usr_vars, us_vars, ctx_vars>>

\* lines 253-257 raise: the inner except (280-282) proceeds with the save
SaveCheckRaises(p) ==
    /\ InLoop(p)
    /\ ~IsBlank(memory_content(p))
    /\ sv' = [sv EXCEPT ![p].pc = "insert", ![p].check = "error"]
    /\ UNCHANGED <<memory_table, vector_collection, usr_vars, us_vars, ctx_vars>>

\* lines 253-278: the nearest row is similar enough, the entry is skipped
SaveSkipDuplicate(p) ==
    /\ InLoop(p)
    /\ ~IsBlank(memory_content(p))
    /\ LET distances == Nearest(Strip(memory_content(p)))
       IN distances # <<>> /\ IsDuplicate(distances[1])
    /\ sv' = [sv EXCEPT ![p] = NextMemory(@)]
    /\ UNCHANGED <<memory_table, vector_collection, usr_vars, us_vars, ctx_vars>>

\* lines 253-278: no row, or the nearest row is not similar enough
SaveCheckClear(p) ==
    /\ InLoop(p)
    /\ ~IsBlank(memory_content(p))
    /\ LET distances == Nearest(Strip(memory_content(p)))
       IN ~(distances # <<>> /\ IsDuplicate(distances[1]))
    /\ sv' = [sv EXCEPT ![p].pc = "insert", ![p].check = "clear"]
    /\ UNCHANGED <<memory_table, vector_collection, usr_vars, us_vars, ctx_vars>>

\* line 285
SaveInsert(p) ==
    /\ sv[p].pc = "insert"
    /\ memory_table' = Append(memory_table,
                              MemoryRow(Strip(memory_content(p)), p, sv[p].check))
    /\ sv' = [sv EXCEPT ![p].pc = "upsert", ![p].row = Len(memory_table')]
    /\ UNCHANGED <<vector_collection, usr_vars, us_vars, ctx_vars>>

\* line 285 raises (or returns None, and line 292 raises)
SaveInsertRaises(p) ==
    /\ sv[p].pc = "insert"
    /\ sv' = [sv EXCEPT ![p] = NextMemory(@)]
    /\ UNCHANGED <<memory_table, vector_collection, usr_vars, us_vars, ctx_vars>>

\* lines 288-300
SaveUpsert(p) ==
    /\ sv[p].pc = "upsert"
    /\ vector_collection' = vector_collection \cup {sv[p].row}
    /\ sv' = [sv EXCEPT ![p] = NextMemory([@ EXCEPT !.saved_count = @ + 1])]
    /\ UNCHANGED <<memory_table, usr_vars, us_vars, ctx_vars>>

\* lines 288-298 raise: the row stays in the SQL table, the count does not move
SaveUpsertRaises(p) ==
    /\ sv[p].pc = "upsert"
    /\ sv' = [sv EXCEPT ![p] = NextMemory(@)]
    /\ UNCHANGED <<memory_table, vector_collection, usr_vars, us_vars, ctx_vars>>

\* line 307
SaveReturn(p) ==
    /\ sv[p].pc = "loop"
    /\ sv[p].i > Len(sv[p].memories)
    /\ sv' = [sv EXCEPT ![p].pc = "done"]
    /\ UNCHANGED <<memory_table, vector_collection, usr_vars, us_vars, ctx_vars>>

NextSave ==
    \E p \in Calls :
        \/ SaveSkipBlank(p)
        \/ SaveEmbeddingRaises(p)
        \/ SaveCheckRaises(p)
        \/ SaveSkipDuplicate(p)
        \/ SaveCheckClear(p)
        \/ SaveInsert(p)
        \/ SaveInsertRaises(p)
        \/ SaveUpsert(p)
        \/ SaveUpsertRaises(p)
        \/ SaveReturn(p)

SpecSave == InitSave /\ [][NextSave]_vars

\* C16: save_extracted_memories prevents duplicates, also under two concurrent
\* calls for the same user: a memory whose duplicate check ran (it did not
\* raise) is never stored next to an earlier memory of the user that is of
\* similarity >= 0.85 and in the vector collection.
C16_NoDuplicateSaved ==
    \A a \in 1..Len(memory_table) : \A b \in 1..Len(memory_table) :
        (a < b /\ a \in vector_collection /\ memory_table[b].check = "clear")
            => Similarity(memory_table[a].text, memory_table[b].text) < SIMILARITY_THRESHOLD

\* the rows of the SQL table that call p inserted
RowsBy(p) == {r \in 1..Len(memory_table) : memory_table[r].by = p}

\* C24: after save_extracted_memories returns, whatever the failures of the SQL
\* insert and of the vector upsert, every memory the call inserted into the SQL
\* store is in the user's vector collection, and the returned count is the
\* number of memories the call inserted into the SQL store.
C24_StoresConsistent ==
    \A p \in Calls :
        (sv[p].pc = "done") =>
            /\ RowsBy(p) \subseteq vector_collection
            /\ sv[p].saved_count = Cardinality(RowsBy(p))

\* C25: the write path and the read path read the value of the vector index's
\* distances array the same way: a value that save_extracted_memories judges
\* a duplicate (as a similarity >= 0.85) gives the same neighbour a score
\* >= 0.85 in search_memories.  (Distances are in tenths, the threshold in
\* hundredths.)
C25_SameReadingOfDistances ==
    (pc = "notes" /\ ~mem_env.fail /\ mem_env.owned > 0) =>
        \A i \in 1..Len(mem_env.hits) :
            IsDuplicate(10 * mem_env.hits[i].distance)
                => 10 * memory_results[i].score >= SIMILARITY_THRESHOLD

\* the entries of a memories list that are not blank
NonBlank(memories) == SelectSeq(memories, LAMBDA m : ~IsBlank(m))

\* C26: save_extracted_memories never saves an empty or whitespace-only entry;
\* when the duplicate check raises, the save proceeds (fail-open); a failure
\* on one entry does not stop the entries after it from being processed; and
\* the returned count never exceeds the number of non-blank entries.
C26_SaveErrorHandling ==
    /\ \A r \in 1..Len(memory_table) :
         /\ ~IsBlank(memory_table[r].text)
         /\ memory_table[r].by \in Calls =>
              \E n \in 1..Len(sv[memory_table[r].by].memories) :
                  /\ ~IsBlank(sv[memory_table[r].by].memories[n])
                  /\ memory_table[r].text = Strip(sv[memory_table[r].by].memories[n])
    /\ \A p \in Calls :
         /\ (sv[p].check = "error") => sv[p].pc \in {"insert", "upsert"}
         /\ (sv[p].pc = "done") => sv[p].i = Len(sv[p].memories) + 1
         /\ sv[p].saved_count <= Len(NonBlank(SubSeq(sv[p].memories, 1, sv[p].i - 1)))
         /\ sv[p].saved_count <= Len(NonBlank(sv[p].memories))

\* one call lost its first entry to a failure and saved its second; the other
\* skipped a blank entry and saved its second after a duplicate check that
\* raised
C26_Witness ==
    /\ \A p \in Calls : sv[p].pc = "done" /\ sv[p].saved_count = 1
    /\ sv[1].memories = <<TextY, TextX>>
    /\ sv[2].memories = <<<<" ">>, TextXPadded>>
    /\ \A r \in 1..Len(memory_table) : memory_table[r].text # TextY
    /\ \E r \in RowsBy(1) : memory_table[r].text = TextX
    /\ \E r \in RowsBy(2) : memory_table[r].text = TextX /\ memory_table[r].check = "error"

====
